---- MODULE Spec2Model ----
(***************************************************************************)
(* Model of streamlit_app.py: the accessibility pre-flight checks for      *)
(* .docx, .pptx and .pdf uploads and the batch loop that collects one      *)
(* record per uploaded file.                                               *)
(*                                                                         *)
(* Text is modelled as a tuple of one-character strings, so that lower(),  *)
(* strip(), startswith() and endswith() are computed character by          *)
(* character.  A finding is a record [text, args]: the literal of the      *)
(* source with {} at each interpolated value, and the interpolated values. *)
(***************************************************************************)
EXTENDS Integers, Sequences, FiniteSets, TLC

VARIABLES uploaded_files, results, pc, i, calls, arg, ret, returned

vars == <<uploaded_files, results, pc, i, calls, arg, ret, returned>>

batchVars == <<uploaded_files, results, pc, i, calls>>

fnVars == <<arg, ret, returned>>

(***************************************************************************)
(* Bounds of the model.                                                    *)
(***************************************************************************)
MaxFiles == 2

MaxParas == 2

MaxRuns == 1

MaxImgs == 2

MaxRels == 2

MaxSlides == 3

MaxShapes == 1

MaxSmallSpans == 51

MaxBigSpans == 1

(***************************************************************************)
(* Python str operations on tuples of characters.                          *)
(***************************************************************************)
UpperChars == <<"A","B","C","D","E","F","G","H","I","J","K","L","M",
                "N","O","P","Q","R","S","T","U","V","W","X","Y","Z">>

LowerChars == <<"a","b","c","d","e","f","g","h","i","j","k","l","m",
                "n","o","p","q","r","s","t","u","v","w","x","y","z">>

LowerChar(c) ==
    IF \E k \in 1..Len(UpperChars) : UpperChars[k] = c
    THEN LowerChars[CHOOSE k \in 1..Len(UpperChars) : UpperChars[k] = c]
    ELSE c

\* variant: the name compared as typed
lower_as_typed(s) == s

lower(s) == [k \in 1..Len(s) |-> LowerChar(s[k])]

IsSpace(c) == c \in {" ", "\t", "\n"}

RECURSIVE lstrip(_)
lstrip(s) ==
    IF s # <<>> /\ IsSpace(Head(s)) THEN lstrip(Tail(s)) ELSE s

RECURSIVE rstrip(_)
rstrip(s) ==
    IF s # <<>> /\ IsSpace(s[Len(s)])
    THEN rstrip(SubSeq(s, 1, Len(s) - 1))
    ELSE s

strip(s) == rstrip(lstrip(s))

contains(s, sub) ==
    \E k \in 1..(Len(s) - Len(sub) + 1) : SubSeq(s, k, k + Len(sub) - 1) = sub

\* variant: the prefix found anywhere in s
startswith_anywhere(s, prefix) == contains(s, prefix)

startswith(s, prefix) ==
    /\ Len(prefix) <= Len(s)
    /\ SubSeq(s, 1, Len(prefix)) = prefix

endswith(s, suffix) ==
    /\ Len(suffix) <= Len(s)
    /\ SubSeq(s, Len(s) - Len(suffix) + 1, Len(s)) = suffix

(***************************************************************************)
(* Sequences of bounded length.                                            *)
(***************************************************************************)
SeqUpTo(S, n) == UNION {[1..k -> S] : k \in 0..n}

Finding(text, args) == [text |-> text, args |-> args]

(***************************************************************************)
(* Literals of the source.                                                 *)
(***************************************************************************)
HeadingPrefix == <<"H","e","a","d","i","n","g">>

VaguePhrases ==
    { <<"h","e","r","e">>,
      <<"c","l","i","c","k"," ","h","e","r","e">>,
      <<"r","e","a","d"," ","m","o","r","e">> }

ImageWord == <<"i","m","a","g","e">>

ExtDocx == <<".","d","o","c","x">>

ExtPptx == <<".","p","p","t","x">>

ExtPdf == <<".","p","d","f">>

NoHeadings ==
    Finding("No headings found (use Heading 1/2/3 styles for document structure).", <<>>)

VagueLink ==
    Finding("Avoid vague link text like 'click here'-use descriptive link text.", <<>>)

FoundImagesDocx(n) ==
    Finding("Found {} image(s). Verify Alt Text for each (Right-click image -> View Alt Text).", <<n>>)

LackAltText(m, n) ==
    Finding("{} of {} image(s) appear to lack alt text. Add concise, purpose-focused descriptions (<=125 characters).", <<m, n>>)

AllHaveAltText(n) ==
    Finding("All {} image(s) have alt text.", <<n>>)

SlidesWithoutTitle(nums) ==
    Finding("Slides without a clear title/text: {}. Use a Title layout or add a heading.", nums)

FoundImagesPptx(n) ==
    Finding("Found {} image(s). Verify Alt Text for each (Format Picture -> Alt Text).", <<n>>)

ContrastAdvisory ==
    Finding("Contrast not evaluated in MVP. Aim for WCAG contrast ratio >= 4.5:1 for normal text.", <<>>)

NotTagged ==
    Finding("PDF is not tagged (no accessibility structure). Export with 'Create tagged PDF' enabled.", <<>>)

FewLargeSpans ==
    Finding("Few/no large text spans detected; headings may be missing. Use heading styles in the source doc.", <<>>)

LinkReminder ==
    Finding("Review links for descriptive text (avoid 'click here'). Edit in source, then re-export.", <<>>)

Unsupported == Finding("Unsupported file type.", <<>>)

NoMajorIssues == Finding("No major issues found.", <<>>)

Separator == Finding("; ", <<>>)

(***************************************************************************)
(* DOCX checks.  A parsed document is a record                             *)
(*   paragraphs : sequence of [has_style, style_name, runs]                *)
(*   inline     : sequence of [readable, has_descr, descr]                 *)
(*   rels       : sequence of relationship types                           *)
(* readable = FALSE is an inline shape whose docPr/descr access raises.    *)
(***************************************************************************)
IsHeadingParagraph(p) == p.has_style /\ startswith(p.style_name, HeadingPrefix)

\* variant: a phrase anywhere in the run text
IsVagueRun_substring(text) ==
    \E phrase \in VaguePhrases : contains(lower(strip(text)), phrase)

IsVagueRun(text) == lower(strip(text)) \in VaguePhrases

RECURSIVE VagueOfRuns(_)
VagueOfRuns(runs) ==
    IF runs = <<>> THEN <<>>
    ELSE (IF IsVagueRun(Head(runs)) THEN <<VagueLink>> ELSE <<>>)
         \o VagueOfRuns(Tail(runs))

RECURSIVE VagueOfParagraphs(_)
VagueOfParagraphs(ps) ==
    IF ps = <<>> THEN <<>>
    ELSE VagueOfRuns(Head(ps).runs) \o VagueOfParagraphs(Tail(ps))

check_docx_basic(doc) ==
    LET has_heading == \E k \in 1..Len(doc.paragraphs) :
                           IsHeadingParagraph(doc.paragraphs[k])
    IN  (IF ~has_heading THEN <<NoHeadings>> ELSE <<>>)
        \o VagueOfParagraphs(doc.paragraphs)

LacksDescr(ish) == ~(ish.has_descr /\ strip(ish.descr) # <<>>)

\* The try block: the counters after the loop, and whether it raised.
RECURSIVE ScanInlineShapes(_, _, _)
ScanInlineShapes(shapes, total_imgs, missing) ==
    IF shapes = <<>>
    THEN [raised |-> FALSE, total_imgs |-> total_imgs, missing |-> missing]
    ELSE IF ~Head(shapes).readable
    THEN [raised |-> TRUE, total_imgs |-> total_imgs + 1, missing |-> missing]
    ELSE ScanInlineShapes(Tail(shapes), total_imgs + 1,
                          IF LacksDescr(Head(shapes)) THEN missing + 1 ELSE missing)

IsImageRel(reltype) == contains(reltype, ImageWord)

ImageRels(rels) == SelectSeq(rels, IsImageRel)

AltTextSummary(total_imgs, missing) ==
    IF total_imgs > 0
    THEN IF missing > 0
         THEN <<LackAltText(missing, total_imgs)>>
         ELSE <<AllHaveAltText(total_imgs)>>
    ELSE <<>>

\* variant: the fallback does not return after its advisory
check_docx_missing_alt_text_no_return(doc) ==
    LET scan == ScanInlineShapes(doc.inline, 0, 0)
    IN  IF scan.raised
        THEN LET total_imgs == Len(ImageRels(doc.rels))
             IN  (IF total_imgs # 0 THEN <<FoundImagesDocx(total_imgs)>> ELSE <<>>)
                 \o AltTextSummary(total_imgs, scan.missing)
        ELSE AltTextSummary(scan.total_imgs, scan.missing)

check_docx_missing_alt_text(doc) ==
    LET scan == ScanInlineShapes(doc.inline, 0, 0)
    IN  IF scan.raised
        THEN LET total_imgs == Len(ImageRels(doc.rels))
             IN  IF total_imgs # 0
                 THEN <<FoundImagesDocx(total_imgs)>>
                 ELSE AltTextSummary(total_imgs, scan.missing)
        ELSE AltTextSummary(scan.total_imgs, scan.missing)


(***************************************************************************)
(* PPTX checks.  A parsed presentation is a sequence of slides, a slide a  *)
(* sequence of shapes [is_title, has_text_frame, text, has_image,          *)
(* shape_type].  slide.shapes.title is the title placeholder, if any.      *)
(***************************************************************************)
MSO_PICTURE == 13

MSO_PLACEHOLDER == 14

has_title(slide) == \E k \in 1..Len(slide) : slide[k].is_title

any_text(slide) ==
    \E k \in 1..Len(slide) :
        slide[k].has_text_frame /\ strip(slide[k].text) # <<>>

\* variant: a slide lacking either a title or text
IsEmptySlide_either(slide) == ~has_title(slide) \/ ~any_text(slide)

IsEmptySlide(slide) == ~has_title(slide) /\ ~any_text(slide)

\* enumerate(prs.slides, start=1) with the append of line 94
RECURSIVE missing_titles(_, _)
missing_titles(slides, n) ==
    IF slides = <<>> THEN <<>>
    ELSE (IF IsEmptySlide(Head(slides)) THEN <<n>> ELSE <<>>)
         \o missing_titles(Tail(slides), n + 1)

IsImageShape(s) == s.has_image \/ s.shape_type \in {MSO_PICTURE, MSO_PLACEHOLDER}

RECURSIVE img_count(_)
img_count(slides) ==
    IF slides = <<>> THEN 0
    ELSE Len(SelectSeq(Head(slides), IsImageShape)) + img_count(Tail(slides))

check_pptx(prs) ==
    LET mt == missing_titles(prs, 1)
        ic == img_count(prs)
    IN  (IF mt # <<>> THEN <<SlidesWithoutTitle(mt)>> ELSE <<>>)
        \o (IF ic # 0 THEN <<FoundImagesPptx(ic)>> ELSE <<>>)
        \o <<ContrastAdvisory>>

(***************************************************************************)
(* PDF checks.  The nested loops over pages, blocks, lines and spans only  *)
(* count spans, so an opened PDF is [is_tagged, spans] with spans the      *)
(* number of spans of each kind [text, has_size, size] over all pages.     *)
(***************************************************************************)
LargeSize == 16

SpanSize(kind) == IF kind.has_size THEN kind.size ELSE 0

IsCounted(kind) == strip(kind.text) # <<>>

IsBig(kind) == IsCounted(kind) /\ SpanSize(kind) >= LargeSize

RECURSIVE SumOver(_, _)
SumOver(f, S) ==
    IF S = {} THEN 0
    ELSE LET k == CHOOSE x \in S : TRUE
         IN  f[k] + SumOver(f, S \ {k})

total_spans(pdf) == SumOver(pdf.spans, {k \in DOMAIN pdf.spans : IsCounted(k)})

big_spans(pdf) == SumOver(pdf.spans, {k \in DOMAIN pdf.spans : IsBig(k)})

\* big / total < 0.02 on the integers big and total: the float quotient is
\* the correctly rounded value of big/total and 0.02 the correctly rounded
\* value of 1/50, so for counts of this size it is 50 * big < total.
\* variant: the comparison with 0.02 not strict
FewLarge_inclusive(big, total) == total # 0 /\ 50 * big <= total

FewLarge(big, total) == total # 0 /\ 50 * big < total

check_pdf(pdf) ==
    (IF ~pdf.is_tagged THEN <<NotTagged>> ELSE <<>>)
    \o (IF FewLarge(big_spans(pdf), total_spans(pdf)) THEN <<FewLargeSpans>> ELSE <<>>)
    \o <<LinkReminder>>


(***************************************************************************)
(* The batch loop.  An uploaded file is [name, content]; content is what   *)
(* its bytes hold: fmt says which parser opens them ("other" opens with    *)
(* none), and doc, prs, pdf are what that parser returns.                  *)
(***************************************************************************)
CanOpenDocx(content) == content.fmt = "docx"

CanOpenPptx(content) == content.fmt = "pptx"

CanOpenPdf(content) == content.fmt = "pdf"

RECURSIVE join(_, _)
join(sep, items) ==
    IF items = <<>> THEN <<>>
    ELSE IF Len(items) = 1 THEN items
    ELSE <<Head(items), sep>> \o join(sep, Tail(items))

\* variant: no substitution for an empty list
WithSentinel_absent(issues_list) == issues_list

\* lines 189-190
WithSentinel(issues_list) ==
    IF issues_list = <<>> THEN <<NoMajorIssues>> ELSE issues_list

Outcome(raised, called, issues_list) ==
    [raised |-> raised, called |-> called, issues_list |-> issues_list]

\* variant: the two DOCX result lists merged the other way round
DocxBranch_alt_first(content) ==
    IF ~CanOpenDocx(content)
    THEN Outcome(TRUE, <<"check_docx_basic">>, <<>>)
    ELSE Outcome(FALSE, <<"check_docx_basic", "check_docx_missing_alt_text">>,
                 check_docx_missing_alt_text(content.doc)
                     \o check_docx_basic(content.doc))

DocxBranch(content) ==
    IF ~CanOpenDocx(content)
    THEN Outcome(TRUE, <<"check_docx_basic">>, <<>>)
    ELSE Outcome(FALSE, <<"check_docx_basic", "check_docx_missing_alt_text">>,
                 check_docx_basic(content.doc)
                     \o check_docx_missing_alt_text(content.doc))

PptxBranch(content) ==
    IF ~CanOpenPptx(content)
    THEN Outcome(TRUE, <<"check_pptx">>, <<>>)
    ELSE Outcome(FALSE, <<"check_pptx">>, check_pptx(content.prs))

PdfBranch(content) ==
    IF ~CanOpenPdf(content)
    THEN Outcome(TRUE, <<"check_pdf">>, <<>>)
    ELSE Outcome(FALSE, <<"check_pdf">>, check_pdf(content.pdf))

\* lines 159-186: the dispatch on the lowercased name
Dispatch(file) ==
    LET lname == lower(file.name)
    IN  IF endswith(lname, ExtDocx) THEN DocxBranch(file.content)
        ELSE IF endswith(lname, ExtPptx) THEN PptxBranch(file.content)
        ELSE IF endswith(lname, ExtPdf) THEN PdfBranch(file.content)
        ELSE Outcome(FALSE, <<>>, <<Unsupported>>)

Record(file, issues_list) ==
    [File |-> file.name, Issues |-> join(Separator, WithSentinel(issues_list))]


(***************************************************************************)
(* Inputs: the texts, documents and uploads the checks are run on.         *)
(***************************************************************************)
StyleHeading1 == <<"H","e","a","d","i","n","g"," ","1">>

StyleNormal == <<"N","o","r","m","a","l">>

StyleLowerHeading == <<"h","e","a","d","i","n","g"," ","1">>

StyleMyHeading == <<"M","y"," ","H","e","a","d","i","n","g">>

RunClickHere == <<"C","l","i","c","k"," ","h","e","r","e">>

RunHerePadded == <<" ","H","E","R","E","\t">>

RunReadMore == <<"r","e","a","d"," ","m","o","r","e">>

RunClickHereNow == <<"c","l","i","c","k"," ","h","e","r","e"," ","n","o","w">>

DescrLogo == <<"L","o","g","o">>

DescrBlank == <<" ">>

RelImage == <<"r","e","l","a","t","i","o","n","s","h","i","p","s","/","i","m","a","g","e">>

RelHyperlink == <<"r","e","l","a","t","i","o","n","s","h","i","p","s","/","h","y","p","e","r","l","i","n","k">>

TextTitle == <<"A","g","e","n","d","a">>

TextBlank == <<" ","\t">>

SpanWord == <<"a","b","c">>

SpanBlank == <<" ">>

NameDocx == <<"a",".","d","o","c","x">>

NameDocxMixed == <<"A",".","D","o","c","X">>

NamePptxUpper == <<"b",".","P","P","T","X">>

NamePdfMixed == <<"c",".","P","d","f">>

NameXlsx == <<"r","e","p","o","r","t",".","x","l","s","x">>

NameNoDot == <<"p","d","f">>

StyleNames == {StyleHeading1, StyleLowerHeading, StyleMyHeading}

RunTexts == {RunClickHere, RunHerePadded, RunReadMore, RunClickHereNow}

Paragraphs ==
    [has_style : {TRUE}, style_name : StyleNames, runs : SeqUpTo(RunTexts, MaxRuns)]
    \cup [has_style : {FALSE}, style_name : {<<>>}, runs : {<<>>}]

InlineShapes ==
    [readable : {TRUE}, has_descr : {TRUE}, descr : {DescrLogo, DescrBlank, <<>>}]
    \cup [readable : {TRUE}, has_descr : {FALSE}, descr : {<<>>}]
    \cup [readable : {FALSE}, has_descr : {FALSE}, descr : {<<>>}]

RelTypes == {RelImage, RelHyperlink}

Docx(paragraphs, inline, rels) ==
    [paragraphs |-> paragraphs, inline |-> inline, rels |-> rels]

DocxBasicInputs ==
    {Docx(ps, <<>>, <<>>) : ps \in SeqUpTo(Paragraphs, MaxParas)}

DocxAltInputs ==
    {Docx(<<>>, sh[1], sh[2]) :
        sh \in SeqUpTo(InlineShapes, MaxImgs) \X SeqUpTo(RelTypes, MaxRels)}

Shape(is_title, has_text_frame, text, has_image, shape_type) ==
    [is_title |-> is_title, has_text_frame |-> has_text_frame, text |-> text,
     has_image |-> has_image, shape_type |-> shape_type]

EmptyTitleShape == Shape(TRUE, TRUE, <<>>, FALSE, MSO_PLACEHOLDER)

TextBoxShape == Shape(FALSE, TRUE, TextTitle, FALSE, 17)

BlankTextBoxShape == Shape(FALSE, TRUE, TextBlank, FALSE, 17)

PictureShape == Shape(FALSE, FALSE, <<>>, TRUE, MSO_PICTURE)

Shapes == {EmptyTitleShape, TextBoxShape, BlankTextBoxShape, PictureShape}

Slides == SeqUpTo(Shapes, MaxShapes)

PptxInputs == SeqUpTo(Slides, MaxSlides)

SpanKind(text, has_size, size) == [text |-> text, has_size |-> has_size, size |-> size]

SmallSpan == SpanKind(SpanWord, TRUE, 15)

BigSpan == SpanKind(SpanWord, TRUE, 16)

BlankSpan == SpanKind(SpanBlank, TRUE, 24)

UnsizedSpan == SpanKind(SpanWord, FALSE, 0)

Pdf(is_tagged, nSmall, nBig, nBlank, nUnsized) ==
    [is_tagged |-> is_tagged,
     spans |-> (SmallSpan :> nSmall) @@ (BigSpan :> nBig)
               @@ (BlankSpan :> nBlank) @@ (UnsizedSpan :> nUnsized)]

PdfInputs ==
    {Pdf(t, c[1], c[2], c[3], c[4]) :
        t \in BOOLEAN,
        c \in (0..MaxSmallSpans) \X (0..MaxBigSpans) \X (0..1) \X (0..1)}


Content(fmt, doc, prs, pdf) == [fmt |-> fmt, doc |-> doc, prs |-> prs, pdf |-> pdf]

NoDocx == Docx(<<>>, <<>>, <<>>)

NoPdf == Pdf(FALSE, 0, 0, 0, 0)

Para(style_name, runs) == [has_style |-> TRUE, style_name |-> style_name, runs |-> runs]

Inline(readable, has_descr, descr) ==
    [readable |-> readable, has_descr |-> has_descr, descr |-> descr]

\* a heading, plain text, no image: both DOCX checks return nothing
DocxClean ==
    Content("docx", Docx(<<Para(StyleHeading1, <<RunClickHereNow>>)>>, <<>>, <<>>), <<>>, NoPdf)

\* no heading, a run "Click here", two images of which one lacks alt text
DocxFlawed ==
    Content("docx",
            Docx(<<Para(StyleNormal, <<RunClickHere>>)>>,
                 <<Inline(TRUE, TRUE, DescrLogo), Inline(TRUE, FALSE, <<>>)>>,
                 <<RelImage, RelImage>>),
            <<>>, NoPdf)

\* a heading, an inline shape whose descr cannot be read, one image part
DocxUnreadable ==
    Content("docx",
            Docx(<<Para(StyleHeading1, <<>>)>>,
                 <<Inline(FALSE, FALSE, <<>>)>>, <<RelHyperlink, RelImage>>),
            <<>>, NoPdf)

\* three slides, the second one empty, a picture on the third
PptxSecondEmpty ==
    Content("pptx", NoDocx,
            <<<<TextBoxShape>>, <<>>, <<EmptyTitleShape, PictureShape>>>>, NoPdf)

PptxPlain == Content("pptx", NoDocx, <<<<TextBoxShape>>>>, NoPdf)

PdfUntaggedEmpty == Content("pdf", NoDocx, <<>>, Pdf(FALSE, 0, 0, 1, 0))

PdfTaggedFewLarge == Content("pdf", NoDocx, <<>>, Pdf(TRUE, 50, 1, 0, 0))

Garbage == Content("other", NoDocx, <<>>, NoPdf)

Contents ==
    {DocxClean, DocxFlawed, DocxUnreadable, PptxSecondEmpty, PptxPlain,
     PdfUntaggedEmpty, PdfTaggedFewLarge, Garbage}

Names == {NameDocx, NameDocxMixed, NamePptxUpper, NamePdfMixed, NameXlsx, NameNoDot}

Files == [name : Names, content : Contents]

(***************************************************************************)
(* The script: Init is the state at line 156, Start the test of line 157,  *)
(* Iterate one pass of the loop body (lines 158-192).  A parser that       *)
(* raises ends the script: the loop has no handler.                        *)
(***************************************************************************)
FnIdle == arg = <<>> /\ ret = <<>> /\ returned = FALSE

Init ==
    /\ uploaded_files \in SeqUpTo(Files, MaxFiles)
    /\ results = <<>>
    /\ pc = "start"
    /\ i = 0
    /\ calls = <<>>
    /\ FnIdle

Start ==
    /\ pc = "start"
    /\ pc' = IF uploaded_files # <<>> THEN "loop" ELSE "done"
    /\ UNCHANGED <<uploaded_files, results, i, calls>>
    /\ UNCHANGED fnVars

\* variant: the record put in front of results
Iterate_prepend ==
    /\ pc = "loop"
    /\ i < Len(uploaded_files)
    /\ LET file == uploaded_files[i + 1]
           out == Dispatch(file)
       IN  /\ i' = i + 1
           /\ calls' = Append(calls, out.called)
           /\ IF out.raised
              THEN /\ pc' = "raised"
                   /\ UNCHANGED results
              ELSE /\ results' = <<Record(file, out.issues_list)>> \o results
                   /\ pc' = IF i + 1 = Len(uploaded_files) THEN "done" ELSE "loop"
    /\ UNCHANGED uploaded_files
    /\ UNCHANGED fnVars

Iterate ==
    /\ pc = "loop"
    /\ i < Len(uploaded_files)
    /\ LET file == uploaded_files[i + 1]
           out == Dispatch(file)
       IN  /\ i' = i + 1
           /\ calls' = Append(calls, out.called)
           /\ IF out.raised
              THEN /\ pc' = "raised"
                   /\ UNCHANGED results
              ELSE /\ results' = Append(results, Record(file, out.issues_list))
                   /\ pc' = IF i + 1 = Len(uploaded_files) THEN "done" ELSE "loop"
    /\ UNCHANGED uploaded_files
    /\ UNCHANGED fnVars

Next == Start \/ Iterate

Spec == Init /\ [][Next]_vars

(***************************************************************************)
(* Each check on its own: Init draws a parsed document, the action applies *)
(* the check to it and keeps what it returns.                              *)
(***************************************************************************)
BatchIdle(fn) ==
    /\ uploaded_files = <<>>
    /\ results = <<>>
    /\ pc = fn
    /\ i = 0
    /\ calls = <<>>

InitFn(fn, inputs) ==
    /\ BatchIdle(fn)
    /\ arg \in inputs
    /\ ret = <<>>
    /\ returned = FALSE

InitDocxBasic == InitFn("check_docx_basic", DocxBasicInputs)

CallDocxBasic ==
    /\ pc = "check_docx_basic"
    /\ ~returned
    /\ ret' = check_docx_basic(arg)
    /\ returned' = TRUE
    /\ UNCHANGED arg
    /\ UNCHANGED batchVars

SpecDocxBasic == InitDocxBasic /\ [][CallDocxBasic]_vars

InitDocxAlt == InitFn("check_docx_missing_alt_text", DocxAltInputs)

CallDocxAlt ==
    /\ pc = "check_docx_missing_alt_text"
    /\ ~returned
    /\ ret' = check_docx_missing_alt_text(arg)
    /\ returned' = TRUE
    /\ UNCHANGED arg
    /\ UNCHANGED batchVars

SpecDocxAlt == InitDocxAlt /\ [][CallDocxAlt]_vars

InitPptx == InitFn("check_pptx", PptxInputs)

CallPptx ==
    /\ pc = "check_pptx"
    /\ ~returned
    /\ ret' = check_pptx(arg)
    /\ returned' = TRUE
    /\ UNCHANGED arg
    /\ UNCHANGED batchVars

SpecPptx == InitPptx /\ [][CallPptx]_vars

InitPdf == InitFn("check_pdf", PdfInputs)

CallPdf ==
    /\ pc = "check_pdf"
    /\ ~returned
    /\ ret' = check_pdf(arg)
    /\ returned' = TRUE
    /\ UNCHANGED arg
    /\ UNCHANGED batchVars

SpecPdf == InitPdf /\ [][CallPdf]_vars

\* The script together with check_pptx and check_pdf on every input.
InitOrder == Init \/ InitPptx \/ InitPdf

NextOrder == Start \/ Iterate \/ CallPptx \/ CallPdf

SpecOrder == InitOrder /\ [][NextOrder]_vars

(***************************************************************************)
(* Properties.                                                             *)
(***************************************************************************)
Count(x, seq) == Cardinality({k \in DOMAIN seq : seq[k] = x})

Last(seq) == seq[Len(seq)]

Stopped == pc \in {"done", "raised"}

\* the findings of an Issues value: what stands between the separators
split(issues) == [k \in 1..((Len(issues) + 1) \div 2) |-> issues[2 * k - 1]]

WellJoined(issues) ==
    /\ Len(issues) % 2 = 1
    /\ \A k \in DOMAIN issues : (issues[k] = Separator) <=> (k % 2 = 0)

\* C1: a document its analyzer cannot open does not abort the batch: when
\* the script has stopped, results holds one record for every uploaded
\* document, and every document was analyzed.
C1_MalformedDoesNotAbort ==
    Stopped =>
        /\ Len(results) = Len(uploaded_files)
        /\ i = Len(uploaded_files)

\* C2: every record of results is built from at least one finding, and its
\* Issues is exactly the sentinel "No major issues found." if and only if
\* the findings list of the document was empty before the substitution.
C2_FindingsNeverEmpty ==
    \A k \in 1..Len(results) :
        LET issues == results[k].Issues
            found == Dispatch(uploaded_files[k]).issues_list
        IN  /\ WellJoined(issues)
            /\ Len(split(issues)) >= 1
            /\ (issues = <<NoMajorIssues>>) <=> (found = <<>>)

C2_Witness ==
    \E k \in 1..Len(results) :
        /\ uploaded_files[k].content = DocxClean
        /\ results[k].Issues = <<NoMajorIssues>>

\* C3: results is at every step a prefix of the final table: its k-th record
\* is the record of the k-th upload, records once appended do not change,
\* and when the loop has finished there is exactly one per upload.
C3_UploadOrder ==
    /\ Len(results) <= Len(uploaded_files)
    /\ \A k \in 1..Len(results) :
           /\ results[k].File = uploaded_files[k].name
           /\ split(results[k].Issues)
                  = WithSentinel(Dispatch(uploaded_files[k]).issues_list)
    /\ pc = "done" => Len(results) = Len(uploaded_files)

C3_Witness ==
    /\ pc = "done"
    /\ Len(results) = 2
    /\ results[1].File = NamePdfMixed
    /\ results[2].File = NameDocx

\* C4: the analyzer is chosen by the extension of the name, whatever its
\* letter case: .docx runs the two DOCX checks and nothing else, .pptx only
\* check_pptx, .pdf only check_pdf, and any other name runs no analyzer and
\* gives an Issues value that is exactly "Unsupported file type.".
DocxNames == {NameDocx, NameDocxMixed}

PptxNames == {NamePptxUpper}

PdfNames == {NamePdfMixed}

OtherNames == {NameXlsx, NameNoDot}

C4_DispatchByExtension ==
    \A k \in 1..Len(calls) :
        LET name == uploaded_files[k].name
            called == calls[k]
        IN  /\ name \in DocxNames =>
                called \in {<<"check_docx_basic">>,
                            <<"check_docx_basic", "check_docx_missing_alt_text">>}
            /\ name \in PptxNames => called = <<"check_pptx">>
            /\ name \in PdfNames => called = <<"check_pdf">>
            /\ name \in OtherNames =>
                /\ called = <<>>
                /\ k <= Len(results)
                /\ results[k].Issues = <<Unsupported>>

C4_Witness ==
    /\ Len(results) = 2
    /\ uploaded_files[1].name = NameDocxMixed
    /\ calls[1] = <<"check_docx_basic", "check_docx_missing_alt_text">>
    /\ uploaded_files[2].name = NameXlsx
    /\ calls[2] = <<>>
    /\ results[2].Issues = <<Unsupported>>


\* C5: check_docx_basic emits "No headings found" if and only if no
\* paragraph has a style whose name begins with "Heading"; it emits it at
\* most once, and as the first finding.
HeadingStyled(p) ==
    /\ p.has_style
    /\ Len(p.style_name) >= 7
    /\ \A k \in 1..7 : p.style_name[k] = HeadingPrefix[k]

HasHeadingStyled(doc) ==
    \E k \in 1..Len(doc.paragraphs) : HeadingStyled(doc.paragraphs[k])

C5_NoHeadingsIffNoHeadingStyle ==
    (pc = "check_docx_basic" /\ returned) =>
        /\ (Count(NoHeadings, ret) >= 1) <=> ~HasHeadingStyled(arg)
        /\ Count(NoHeadings, ret) <= 1
        /\ \A k \in DOMAIN ret : ret[k] = NoHeadings => k = 1

C5_Witness ==
    /\ pc = "check_docx_basic"
    /\ returned
    /\ Len(arg.paragraphs) = 2
    /\ arg.paragraphs[1].style_name = StyleMyHeading
    /\ arg.paragraphs[1].runs = <<RunReadMore>>
    /\ arg.paragraphs[2].style_name = StyleHeading1
    /\ ret = <<VagueLink>>

\* C6: check_docx_basic emits one vague-link finding per run whose trimmed,
\* lowercased text is "here", "click here" or "read more", and none for a
\* run that only contains such a phrase; a document with no heading style
\* and the single run "Click here" yields "No headings found" and one
\* vague-link finding.
VagueRunTexts == {RunClickHere, RunHerePadded, RunReadMore}

VagueRunPositions(doc) ==
    UNION { { <<k, j>> : j \in { j \in 1..Len(doc.paragraphs[k].runs) :
                                   doc.paragraphs[k].runs[j] \in VagueRunTexts } } :
            k \in 1..Len(doc.paragraphs) }

C6_OneVagueFindingPerRun ==
    (pc = "check_docx_basic" /\ returned) =>
        /\ Count(VagueLink, ret) = Cardinality(VagueRunPositions(arg))
        /\ (/\ ~HasHeadingStyled(arg)
            /\ Len(arg.paragraphs) = 1
            /\ arg.paragraphs[1].runs = <<RunClickHere>>)
               => ret = <<NoHeadings, VagueLink>>

C6_Witness ==
    /\ pc = "check_docx_basic"
    /\ returned
    /\ Len(arg.paragraphs) = 2
    /\ arg.paragraphs[1].runs = <<RunClickHereNow>>
    /\ arg.paragraphs[2].runs = <<RunHerePadded>>
    /\ Count(VagueLink, ret) = 1

\* C7: when reading descr fails for some inline image, the output is the
\* single advisory "Found K image(s)" with K the number of image
\* relationships, whatever was counted before the failure.
SomeUnreadable(doc) == \E k \in 1..Len(doc.inline) : ~doc.inline[k].readable

ImageRelCount(doc) == Cardinality({k \in 1..Len(doc.rels) : doc.rels[k] = RelImage})

C7_FallbackAlwaysAdvises ==
    (pc = "check_docx_missing_alt_text" /\ returned /\ SomeUnreadable(arg)) =>
        ret = <<FoundImagesDocx(ImageRelCount(arg))>>

\* C7 as amended: when reading descr fails for some inline image, the
\* output is the single advisory "Found K image(s)" if K, the number of
\* image relationships, is positive, and no finding at all if K is 0; in
\* neither case a "N of M lack alt text" or "All M have alt text" finding.
C7_FallbackAdvisesWhenImages ==
    (pc = "check_docx_missing_alt_text" /\ returned /\ SomeUnreadable(arg)) =>
        LET K == ImageRelCount(arg)
        IN  /\ K > 0 => ret = <<FoundImagesDocx(K)>>
            /\ K = 0 => ret = <<>>

C7_Witness ==
    /\ pc = "check_docx_missing_alt_text"
    /\ returned
    /\ Len(arg.inline) = 2
    /\ arg.inline[1].readable
    /\ ~arg.inline[1].has_descr
    /\ ~arg.inline[2].readable
    /\ arg.rels = <<RelHyperlink, RelImage>>
    /\ ret = <<FoundImagesDocx(1)>>

\* C8: the slide numbers of the "Slides without a clear title/text" finding
\* are exactly the 1-indexed positions of the slides with no title and no
\* shape with non-whitespace text, in strictly increasing order, and the
\* finding is emitted if and only if there is such a slide.
EmptySlideNumbers(prs) ==
    {n \in 1..Len(prs) :
        \A k \in 1..Len(prs[n]) : prs[n][k] \in {BlankTextBoxShape, PictureShape}}

SlidesFindings(issues) ==
    {k \in DOMAIN issues : issues[k].text = SlidesWithoutTitle(<<>>).text}

C8_EmptySlideNumbers ==
    (pc = "check_pptx" /\ returned) =>
        LET E == EmptySlideNumbers(arg)
        IN  IF E = {}
            THEN SlidesFindings(ret) = {}
            ELSE /\ SlidesFindings(ret) = {1}
                 /\ {ret[1].args[k] : k \in DOMAIN ret[1].args} = E
                 /\ \A k \in 1..(Len(ret[1].args) - 1) :
                        ret[1].args[k] < ret[1].args[k + 1]

C8_Witness ==
    /\ pc = "check_pptx"
    /\ returned
    /\ Len(arg) = 3
    /\ arg[1] = <<EmptyTitleShape>>
    /\ arg[2] = <<>>
    /\ arg[3] = <<TextBoxShape>>
    /\ ret[1] = SlidesWithoutTitle(<<2>>)

\* C9: with total the number of text spans over all pages and big the
\* number of those of size >= 16, check_pdf emits "headings may be missing"
\* if and only if total > 0 and big/total < 0.02, and when total is 0 an
\* untagged document gives the tagging finding and the reminder.
AllSpans(pdf) ==
    pdf.spans[SmallSpan] + pdf.spans[BigSpan] + pdf.spans[UnsizedSpan]
        + pdf.spans[BlankSpan]

AllLargeSpans(pdf) == pdf.spans[BigSpan] + pdf.spans[BlankSpan]

C9_RatioOverAllSpans ==
    (pc = "check_pdf" /\ returned) =>
        LET total == AllSpans(arg)
            big == AllLargeSpans(arg)
        IN  /\ (Count(FewLargeSpans, ret) >= 1) <=> (total > 0 /\ 100 * big < 2 * total)
            /\ (total = 0 /\ ~arg.is_tagged) => ret = <<NotTagged, LinkReminder>>

\* C9 as amended: with total the number of spans whose text is not empty
\* after trimming and big the number of those of size >= 16, check_pdf
\* emits "headings may be missing" if and only if total > 0 and
\* big/total < 0.02: not at big = 1, total = 50, at big = 1, total = 51, and
\* not when total is 0, where an untagged document gives the tagging finding
\* and the reminder.
TotalOf(pdf) == pdf.spans[SmallSpan] + pdf.spans[BigSpan] + pdf.spans[UnsizedSpan]

BigOf(pdf) == pdf.spans[BigSpan]

C9_HeadingRatioStrict ==
    (pc = "check_pdf" /\ returned) =>
        LET total == TotalOf(arg)
            big == BigOf(arg)
        IN  /\ (Count(FewLargeSpans, ret) >= 1) <=> (total > 0 /\ 100 * big < 2 * total)
            /\ (big = 1 /\ total = 50) => Count(FewLargeSpans, ret) = 0
            /\ (big = 1 /\ total = 51) => Count(FewLargeSpans, ret) = 1
            /\ (total = 0 /\ ~arg.is_tagged) => ret = <<NotTagged, LinkReminder>>

C9_Witness ==
    /\ pc = "check_pdf"
    /\ returned
    /\ BigOf(arg) = 1
    /\ TotalOf(arg) = 50
    /\ arg.spans[BlankSpan] = 1
    /\ ~arg.is_tagged
    /\ ret = <<NotTagged, LinkReminder>>

\* C10: findings keep their detection order: check_pptx ends with the
\* contrast advisory and check_pdf with the link-text reminder, each emitted
\* once, after the other findings; for a .docx the findings of
\* check_docx_basic precede those of check_docx_missing_alt_text; and
\* Issues is the findings list joined by "; " with nothing reordered,
\* merged or dropped.
PositionsOfText(issues, text) == {k \in DOMAIN issues : issues[k].text = text}

C10_DetectionOrder ==
    /\ (pc = "check_pptx" /\ returned) =>
           /\ Last(ret) = ContrastAdvisory
           /\ Count(ContrastAdvisory, ret) = 1
           /\ PositionsOfText(ret, SlidesWithoutTitle(<<>>).text) \subseteq {1}
           /\ \A k \in PositionsOfText(ret, FoundImagesPptx(0).text) :
                  /\ k = Len(ret) - 1
                  /\ k - 1 \in PositionsOfText(ret, SlidesWithoutTitle(<<>>).text) \cup {0}
    /\ (pc = "check_pdf" /\ returned) =>
           /\ Last(ret) = LinkReminder
           /\ Count(LinkReminder, ret) = 1
           /\ \A k \in DOMAIN ret : ret[k] = NotTagged => k = 1
           /\ \A k \in DOMAIN ret : ret[k] = FewLargeSpans => k = Len(ret) - 1
    /\ \A k \in 1..Len(results) :
           LET file == uploaded_files[k]
               issues == results[k].Issues
               found == split(issues)
           IN  /\ WellJoined(issues)
               /\ found = WithSentinel(Dispatch(file).issues_list)
               /\ file.name \in PptxNames => found = check_pptx(file.content.prs)
               /\ file.name \in PdfNames => found = check_pdf(file.content.pdf)
               /\ file.name \in DocxNames =>
                      LET basic == check_docx_basic(file.content.doc)
                          alt == check_docx_missing_alt_text(file.content.doc)
                      IN  basic \o alt # <<>> =>
                              /\ SubSeq(found, 1, Len(basic)) = basic
                              /\ SubSeq(found, Len(basic) + 1, Len(found)) = alt

C10_Witness ==
    \E k \in 1..Len(results) :
        /\ uploaded_files[k].name = NameDocxMixed
        /\ uploaded_files[k].content = DocxFlawed
        /\ results[k].Issues =
               <<NoHeadings, Separator, VagueLink, Separator, LackAltText(1, 2)>>


====
